---------------------------- MODULE Spec2Model ----------------------------
(***************************************************************************)
(* Capture-to-delivery pipeline of the MeshRank observer firmware          *)
(* (src/src/observer_main.cpp): the receive interrupt and its single-slot  *)
(* flag, the main cycle loop(), the bounded spool file and its replay.     *)
(*                                                                         *)
(* loop() is split at the points where it probes the outside world         *)
(* (WiFi.status(), mqttClient.connected(), the radio) so that the receive  *)
(* interrupt can fire between any two of them.  A probe of the network     *)
(* link may return either value; a probe of the transport session returns  *)
(* TRUE only if a connect() succeeded and no loss was reported since.      *)
(***************************************************************************)
EXTENDS Integers, Sequences, FiniteSets

(* ------------------------------ bounds --------------------------------- *)
\* number of receive interrupts that fire in a behaviour
MaxFires == 3
\* lengths of the encoded record text (json.length()); the code puts no
\* upper bound on it (observerName is free text)
SmallJson == 258
BigJson == 131070
\* largest value of radio.getPacketLength() tried
MaxReported == 1000

(* ------------------------- program constants --------------------------- *)
MAX_SPOOL_BYTES == 256 * 1024
BUF_SIZE == 255
\* char payloadHex[512]
HEX_BUF == 512
\* f.println(line) writes the line followed by CR LF
EOL_BYTES == 2

JsonLens == {SmallJson, BigJson}
ReportedLens == {-1, 0, 1, BUF_SIZE - 1, BUF_SIZE, BUF_SIZE + 1, MaxReported}
Bytes == {0, 17, 255}
NoLine == [id |-> -1, bytes |-> 0]
\* log: loop() printed a failure message for the record
NoDelivery == [pub |-> "none", app |-> "none", log |-> FALSE]
NoFrame == [rl |-> 0, head |-> 0, b19 |-> 0, tail |-> 0]
NoFlush == [st |-> "none", log |-> <<>>, stop |-> 0]

VARIABLES
  pc,                \* position of the main cycle inside loop()
  wifiWasConnected,  \* tracked network flag
  mqttWasConnected,  \* tracked transport flag
  wifiSeen,          \* value of the latest WiFi.status() == WL_CONNECTED
  mqttConn,          \* session state held by mqttClient
  rxFlag,            \* the frame-pending flag
  pending,           \* interrupt firings since the last takeRxFlag
  fired,             \* interrupt firings so far
  seq,               \* frames captured so far (takeRxFlag returned true)
  spool,             \* lines of /spool.ndjson, oldest first; <<>> = absent
  reportedLen, len, ptype,  \* locals of loop() for the frame being handled
  cur,               \* the encoded record of this cycle, as a spool line
  delivery,          \* what the delivery step did with cur
  flush,             \* outcome of the spoolFlush of this cycle
  buf0,              \* byte 0 of the receive buffer after readData
  hashLen,           \* number of bytes hashed into frameHash
  encLen,            \* number of bytes hex-encoded; the record's "len" field
  trace,             \* operations performed so far in this cycle
  cycleStart,        \* connectivity state when this cycle began
  faults,            \* "some" once a storage operation has failed, else "none"
  published,         \* ids of the records handed to mqttClient.publish so far,
                     \* kept while no storage operation has failed
  fpPc,              \* the sniffer (src/src/main.cpp): "off", "in" or "out"
  fpA, fpB,          \* two frames in the sniffer's receive buffer
  fpOut              \* their fingerprints, as 8 bytes, lowest first

mainVars == <<pc, wifiWasConnected, mqttWasConnected, wifiSeen, mqttConn, rxFlag,
          pending, fired, seq, spool, reportedLen, len, ptype, cur, delivery,
          flush, buf0, hashLen, encLen, trace, cycleStart, faults, published>>

fpVars == <<fpPc, fpA, fpB, fpOut>>

vars == <<mainVars, fpVars>>

frameVars == <<reportedLen, len, ptype, buf0, hashLen, encLen, cur>>

histVars == <<faults, published>>

(* ------------------------------ helpers -------------------------------- *)
RECURSIVE SpoolBytes(_)
SpoolBytes(sp) == IF sp = <<>> THEN 0 ELSE Head(sp).bytes + SpoolBytes(Tail(sp))

Ids(sp) == [i \in 1..Len(sp) |-> sp[i].id]

\* mqttClient.connected(): a lost session stays lost until the next connect()
Probe(session) == IF session THEN BOOLEAN ELSE {FALSE}

ConnState ==
  IF mqttWasConnected THEN "TransportUp"
  ELSE IF wifiWasConnected THEN "NetworkUp" ELSE "Down"

(* ------------------------------- spool --------------------------------- *)
\* the storage error record after one more storage operation
NoteFault(old, new) == IF new = "none" THEN old ELSE "some"

\* the publish history after ids were handed to publish
NotePublished(old, ids, flt) == IF flt = "none" THEN old \cup ids ELSE {}

\* faulty variant: the new line is written in front of the older ones
PrintLineFront(sp, line) == <<line>> \o sp

\* f.println(line) on a file opened with FILE_APPEND
PrintLine(sp, line) == Append(sp, line)

\* the size check after the write; statOk = the FILE_READ open succeeded
SizeCheck(sp, statOk) ==
  IF statOk /\ SpoolBytes(sp) > MAX_SPOOL_BYTES THEN <<>> ELSE sp

\* faulty variant: false is also returned when the overflow discards the file
spoolAppendFailsOnDiscard(sp, line, beginOk, openOk, statOk) ==
  IF ~beginOk THEN [spool |-> sp, ret |-> FALSE, fault |-> "append"]
  ELSE IF ~openOk THEN [spool |-> sp, ret |-> FALSE, fault |-> "append"]
  ELSE [spool |-> SizeCheck(PrintLine(sp, line), statOk),
        ret   |-> SizeCheck(PrintLine(sp, line), statOk) # <<>>,
        fault |-> IF statOk THEN "none" ELSE "other"]

\* spoolAppend(line): the file afterwards, the returned value and the
\* storage error met, if any
spoolAppend(sp, line, beginOk, openOk, statOk) ==
  IF ~beginOk THEN [spool |-> sp, ret |-> FALSE, fault |-> "append"]
  ELSE IF ~openOk THEN [spool |-> sp, ret |-> FALSE, fault |-> "append"]
  ELSE [spool |-> SizeCheck(PrintLine(sp, line), statOk), ret |-> TRUE,
        fault |-> IF statOk THEN "none" ELSE "other"]

\* faulty variant: the file is replayed newest line first
ReplayedNewestFirst(sp, drop) == [i \in 1..(drop - 1) |-> sp[Len(sp) + 1 - i]]

\* faulty variant: the loop does not break when connected() returns false
ReplayedAll(sp, drop) == sp

\* the lines spoolFlush hands to publish when connected() first returns
\* false before line number drop (drop = Len(sp) + 1: never inside the loop)
Replayed(sp, drop) == SubSeq(sp, 1, drop - 1)

\* spoolFlush(): results[i] is what publish returned for line i; lastUp is
\* what connected() returns after the loop
\* faulty variant: the file is not removed after a complete replay
spoolFlushNoRemove(sp, beginOk, openOk, drop, results, lastUp) ==
  IF ~beginOk
  THEN [spool |-> sp, st |-> "nofs", log |-> <<>>, stop |-> 0, conn |-> TRUE]
  ELSE IF sp = <<>>
  THEN [spool |-> sp, st |-> "absent", log |-> <<>>, stop |-> 0, conn |-> TRUE]
  ELSE IF ~openOk
  THEN [spool |-> sp, st |-> "nofs", log |-> <<>>, stop |-> 0, conn |-> TRUE]
  ELSE LET up == (drop = Len(sp) + 1) /\ lastUp
           out == SubSeq(sp, 1, drop - 1)
       IN [spool |-> sp,
           st    |-> "kept",
           log   |-> [i \in 1..Len(out) |-> [id |-> out[i].id, ok |-> results[i]]],
           stop  |-> drop,
           conn  |-> up]

\* st: "nofs" storage not opened, "absent" no file, "kept", "removed";
\* stop: the line before which connected() returned false (a publish on a
\* lost session returns false)
spoolFlush(sp, beginOk, openOk, drop, results, lastUp) ==
  IF ~beginOk
  THEN [spool |-> sp, st |-> "nofs", log |-> <<>>, stop |-> 0, conn |-> TRUE]
  ELSE IF sp = <<>>
  THEN [spool |-> sp, st |-> "absent", log |-> <<>>, stop |-> 0, conn |-> TRUE]
  ELSE IF ~openOk
  THEN [spool |-> sp, st |-> "nofs", log |-> <<>>, stop |-> 0, conn |-> TRUE]
  ELSE LET up == (drop = Len(sp) + 1) /\ lastUp
           out == Replayed(sp, drop)
       IN [spool |-> IF up THEN <<>> ELSE sp,
           st    |-> IF up THEN "removed" ELSE "kept",
           log   |-> [i \in 1..Len(out) |->
                        [id |-> out[i].id,
                         ok |-> IF i < drop THEN results[i] ELSE FALSE]],
           stop  |-> drop,
           conn  |-> up]

\* faulty variant: the replay after a successful connect is forgotten
AfterConnectNoFlush(sp, beginOk, openOk, drop, results, lastUp) ==
  [spool |-> sp, flush |-> NoFlush, conn |-> TRUE, ops |-> <<"connect">>]

\* lines 419-429: what loop() does once connect() left the session up
AfterConnect(sp, beginOk, openOk, drop, results, lastUp) ==
  LET f == spoolFlush(sp, beginOk, openOk, drop, results, lastUp)
  IN [spool |-> f.spool, flush |-> [st |-> f.st, log |-> f.log, stop |-> f.stop],
      conn |-> f.conn, ops |-> <<"connect", "flush">>]

\* faulty variant: the connect is attempted without looking at the network link
ConnectGuardNoWifi(wifi, session) == ~session

\* line 412: when loop() attempts a connect
ConnectGuard(wifi, session) == wifi /\ ~session

\* faulty variant: the record is spooled whether or not it was published
DeliverBoth(sp, line, session, pubOk, beginOk, openOk, statOk) ==
  LET a == spoolAppend(sp, line, beginOk, openOk, statOk)
  IN [pub |-> IF session THEN (IF pubOk THEN "ok" ELSE "fail") ELSE "none",
      app |-> IF a.ret THEN "ok" ELSE "fail",
      spool |-> a.spool, op |-> "append", fault |-> a.fault,
      log |-> session /\ ~pubOk]

\* lines 483-489: the delivery decision for the record line
Deliver(sp, line, session, pubOk, beginOk, openOk, statOk) ==
  IF session
  THEN [pub |-> IF pubOk THEN "ok" ELSE "fail", app |-> "none", spool |-> sp,
        op |-> "publish", fault |-> "none", log |-> ~pubOk]
  ELSE LET a == spoolAppend(sp, line, beginOk, openOk, statOk)
       IN [pub |-> "none", app |-> IF a.ret THEN "ok" ELSE "fail",
           spool |-> a.spool, op |-> "append", fault |-> a.fault,
           log |-> FALSE]

\* faulty variant: the flag is read but not cleared
TakeFlagNoClear(flag) == [got |-> flag, flag |-> flag]

\* lines 93-100: the value returned and the flag left behind
TakeFlag(flag) == [got |-> flag, flag |-> FALSE]

(* ------------------------------ capture -------------------------------- *)
\* faulty variant: the clamp to the buffer capacity is missing
UsedLenNoClamp(rl) == IF rl <= 0 THEN BUF_SIZE ELSE rl

\* the length used for the read
UsedLen(rl) ==
  LET l1 == IF rl <= 0 THEN BUF_SIZE ELSE rl
  IN IF l1 > BUF_SIZE THEN BUF_SIZE ELSE l1

\* frame type: byte 0 of the buffer, or the sentinel
PType(l, b0) == IF l > 0 THEN b0 ELSE -1

\* faulty variant: the hex buffer is declared two bytes shorter
EncLenSmallBuf(l) == IF l * 2 >= 510 THEN 254 ELSE l

\* line 464: the payload length after the truncation guard
EncLen(l) == IF l * 2 >= HEX_BUF THEN (HEX_BUF \div 2) - 1 ELSE l

\* toHex: the bytes it writes into out for n payload bytes (two digits per
\* byte and the terminating NUL)
toHex(n) == 2 * n + 1

(* ----------------------------- fingerprint ----------------------------- *)
\* fingerprint prefix length of src/src/main.cpp
FP_BYTES == 20
\* 0xcbf29ce484222325 and 0x100000001b3 as bytes, lowest first
FNV_OFFSET == <<37, 35, 34, 132, 228, 156, 242, 203>>
FNV_PRIME == <<179, 1, 0, 0, 0, 1, 0, 0>>

Min(a, b) == IF a < b THEN a ELSE b

\* buf[i] of a frame: bytes 0..18, byte 19 and the bytes from 20 on
BufAt(f, i) == IF i < 19 THEN f.head ELSE IF i = 19 THEN f.b19 ELSE f.tail

RECURSIVE BitXor(_, _, _)
BitXor(a, b, n) ==
  IF n = 0 THEN 0 ELSE ((a + b) % 2) + 2 * BitXor(a \div 2, b \div 2, n - 1)

\* h ^= data[i]
XorByte(h, b) == [h EXCEPT ![1] = BitXor(h[1], b, 8)]

RECURSIVE ColSum(_, _, _, _)
ColSum(a, p, k, i) ==
  IF i = 0 THEN 0 ELSE a[i] * p[k + 1 - i] + ColSum(a, p, k, i - 1)

RECURSIVE MulFrom(_, _, _, _)
MulFrom(a, p, k, carry) ==
  IF k > 8 THEN <<>>
  ELSE LET col == ColSum(a, p, k, k) + carry
       IN <<col % 256>> \o MulFrom(a, p, k + 1, col \div 256)

\* h *= prime on uint64_t: the product modulo 2^64
Mul64(a, p) == MulFrom(a, p, 1, 0)

\* fnv1a64(data, n)
RECURSIVE fnv1a64(_, _)
fnv1a64(f, n) ==
  IF n = 0 THEN FNV_OFFSET
  ELSE LET h == fnv1a64(f, n - 1)
       IN IF Len(h) = 8 THEN Mul64(XorByte(h, BufAt(f, n - 1)), FNV_PRIME)
          ELSE h

\* faulty variant: one byte more is fingerprinted
FpLenOneMore(l) == Min(l, FP_BYTES + 1)

\* int fpLen = min(len, 20)
FpLen(l) == Min(l, FP_BYTES)

\* the fingerprint the sniffer prints for a frame
Fingerprint(f) == fnv1a64(f, FpLen(UsedLen(f.rl)))

(* ------------------------------- Init ---------------------------------- *)
\* the spool file survives a reboot: it may hold a line of an earlier run
MainInit ==
  /\ pc = "top"
  /\ wifiWasConnected = FALSE
  /\ mqttWasConnected = FALSE
  /\ wifiSeen = FALSE
  /\ mqttConn = FALSE
  /\ rxFlag = FALSE
  /\ pending = 0
  /\ fired = 0
  /\ seq = 0
  /\ spool \in {<<>>} \cup {<<[id |-> 0, bytes |-> j + EOL_BYTES]>> : j \in JsonLens}
  /\ reportedLen = 0 /\ len = 0 /\ ptype = -1
  /\ cur = NoLine
  /\ delivery = NoDelivery
  /\ flush = NoFlush
  /\ buf0 = 0
  /\ hashLen = 0 /\ encLen = 0
  /\ trace = <<>>
  /\ cycleStart = "Down"
  /\ faults = "none"
  /\ published = {}

Init ==
  /\ MainInit
  /\ fpPc = "off" /\ fpA = NoFrame /\ fpB = NoFrame /\ fpOut = <<>>

(* --------------------------- receive interrupt ------------------------- *)
onDio1 ==
  /\ fired < MaxFires
  /\ rxFlag' = TRUE
  /\ fired' = fired + 1
  /\ pending' = pending + 1
  /\ UNCHANGED <<pc, wifiWasConnected, mqttWasConnected, wifiSeen, mqttConn,
                 seq, spool, frameVars, delivery, flush, trace, cycleStart>>
  /\ UNCHANGED histVars
  /\ UNCHANGED fpVars

(* ------------------------------ main cycle ----------------------------- *)
\* lines 399-410: track the network link
loopWifi ==
  /\ pc = "top"
  /\ \E w1 \in BOOLEAN, w2 \in BOOLEAN :
       LET was1 == IF w1 /\ ~wifiWasConnected THEN TRUE ELSE wifiWasConnected
           was2 == IF ~w2 /\ was1 THEN FALSE ELSE was1
       IN /\ wifiWasConnected' = was2
          /\ wifiSeen' = w2
  /\ cycleStart' = ConnState
  /\ trace' = <<>>
  /\ delivery' = NoDelivery
  /\ cur' = NoLine
  /\ reportedLen' = 0 /\ len' = 0 /\ ptype' = -1 /\ buf0' = 0
  /\ hashLen' = 0 /\ encLen' = 0
  /\ pc' = "connect"
  /\ UNCHANGED <<mqttWasConnected, mqttConn, rxFlag, pending, fired, seq, spool,
                 flush>>
  /\ UNCHANGED histVars
  /\ UNCHANGED fpVars

\* faulty variant: the connect is retried inside the cycle until the session
\* is up
AfterConnectPcRetry(up) == IF up THEN "track" ELSE "connect"

\* lines 412-430: one connect attempt per cycle, then on to line 431 whether
\* or not the session is up
AfterConnectPc(up) == "track"

\* lines 412-430: connect the transport and replay the spool
loopConnect ==
  /\ pc = "connect"
  /\ \E w3 \in BOOLEAN, c1 \in Probe(mqttConn) :
       /\ wifiSeen' = w3
       /\ IF ConnectGuard(w3, c1)
          THEN \E r \in BOOLEAN :
                 \E c2 \in Probe(r) :
                   IF c2
                   THEN \E beginOk \in BOOLEAN, openOk \in BOOLEAN,
                           drop \in 1..(Len(spool) + 1), lastUp \in BOOLEAN :
                          \E results \in [1..(drop - 1) -> BOOLEAN] :
                            LET f == AfterConnect(spool, beginOk, openOk, drop,
                                                  results, lastUp)
                            IN /\ mqttWasConnected' = TRUE
                               /\ spool' = f.spool
                               /\ flush' = f.flush
                               /\ mqttConn' = f.conn
                               /\ trace' = trace \o f.ops
                               /\ faults' = NoteFault(faults,
                                    IF f.flush.st = "nofs" THEN "other" ELSE "none")
                               /\ published' = NotePublished(published,
                                    {f.flush.log[i].id : i \in 1..Len(f.flush.log)},
                                    NoteFault(faults,
                                      IF f.flush.st = "nofs" THEN "other" ELSE "none"))
                   ELSE /\ mqttConn' = FALSE
                        /\ UNCHANGED <<mqttWasConnected, spool, flush, trace,
                                       histVars>>
          ELSE /\ mqttConn' = c1
               /\ UNCHANGED <<mqttWasConnected, spool, flush, trace, histVars>>
  /\ pc' = AfterConnectPc(mqttConn')
  /\ UNCHANGED <<wifiWasConnected, rxFlag, pending, fired, seq, frameVars,
                 delivery, cycleStart>>
  /\ UNCHANGED fpVars

\* lines 431-436: track the transport session
loopTrack ==
  /\ pc = "track"
  /\ \E c \in Probe(mqttConn) :
       /\ mqttConn' = c
       /\ mqttWasConnected' = IF ~c /\ mqttWasConnected THEN FALSE
                              ELSE mqttWasConnected
  /\ flush' = NoFlush
  /\ pc' = "poll"
  /\ UNCHANGED <<wifiWasConnected, wifiSeen, rxFlag, pending, fired, seq, spool,
                 frameVars, delivery, trace, cycleStart>>
  /\ UNCHANGED histVars
  /\ UNCHANGED fpVars

\* faulty variant: no critical section, so the interrupt may fire between the
\* read of the flag and its clearing
takeRxFlagRacy ==
  /\ pc = "poll"
  /\ \E hit \in (IF fired < MaxFires THEN BOOLEAN ELSE {FALSE}) :
       fired' = IF hit THEN fired + 1 ELSE fired
  /\ rxFlag' = FALSE
  /\ pending' = 0
  /\ IF rxFlag
     THEN /\ seq' = seq + 1
          /\ pc' = "read"
     ELSE /\ seq' = seq
          /\ pc' = "top"
  /\ UNCHANGED <<wifiWasConnected, mqttWasConnected, wifiSeen, mqttConn,
                 spool, frameVars, delivery, flush, trace, cycleStart>>
  /\ UNCHANGED histVars
  /\ UNCHANGED fpVars

\* lines 93-100 and 444-447: read and clear the flag with interrupts disabled
takeRxFlag ==
  /\ pc = "poll"
  /\ rxFlag' = TakeFlag(rxFlag).flag
  /\ pending' = 0
  /\ IF TakeFlag(rxFlag).got
     THEN /\ seq' = seq + 1
          /\ pc' = "read"
     ELSE /\ seq' = seq
          /\ pc' = "top"
  /\ UNCHANGED <<wifiWasConnected, mqttWasConnected, wifiSeen, mqttConn, fired,
                 spool, frameVars, delivery, flush, trace, cycleStart>>
  /\ UNCHANGED histVars
  /\ UNCHANGED fpVars

\* lines 449-481: read the frame and encode the record
loopRead ==
  /\ pc = "read"
  /\ \E rl \in ReportedLens, b0 \in Bytes, jl \in JsonLens :
       /\ reportedLen' = rl
       /\ len' = UsedLen(rl)
       /\ ptype' = PType(UsedLen(rl), b0)
       /\ buf0' = b0
       /\ hashLen' = UsedLen(rl)
       /\ encLen' = EncLen(UsedLen(rl))
       /\ cur' = [id |-> seq, bytes |-> jl + EOL_BYTES]
  /\ trace' = Append(trace, "read")
  /\ pc' = "deliver"
  /\ UNCHANGED <<wifiWasConnected, mqttWasConnected, wifiSeen, mqttConn, rxFlag,
                 pending, fired, seq, spool, delivery, flush, cycleStart>>
  /\ UNCHANGED histVars
  /\ UNCHANGED fpVars

\* lines 483-489: publish or spool
loopDeliver ==
  /\ pc = "deliver"
  /\ \E c \in Probe(mqttConn), pubOk \in BOOLEAN,
        beginOk \in BOOLEAN, openOk \in BOOLEAN, statOk \in BOOLEAN :
       LET d == Deliver(spool, cur, c, pubOk, beginOk, openOk, statOk)
       IN /\ mqttConn' = c
          /\ delivery' = [pub |-> d.pub, app |-> d.app, log |-> d.log]
          /\ trace' = Append(trace, d.op)
          /\ spool' = d.spool
          /\ faults' = NoteFault(faults, d.fault)
          /\ published' = NotePublished(published,
                             IF d.pub = "none" THEN {} ELSE {cur.id},
                             NoteFault(faults, d.fault))
  /\ reportedLen' = 0 /\ len' = 0 /\ ptype' = -1 /\ buf0' = 0
  /\ hashLen' = 0 /\ encLen' = 0
  /\ pc' = "rearm"
  /\ UNCHANGED <<wifiWasConnected, mqttWasConnected, wifiSeen, rxFlag, pending,
                 fired, seq, cur, flush, cycleStart>>
  /\ UNCHANGED fpVars

\* faulty variant: the receiver is re-armed only after a successful delivery
RearmOpsOnSuccess(d) ==
  IF d.pub = "fail" \/ d.app = "fail" THEN <<>> ELSE <<"rearm">>

\* line 491: the re-arm does not depend on what the delivery step did
RearmOps(d) == <<"rearm">>

\* lines 491-492: radio.startReceive()
loopRearm ==
  /\ pc = "rearm"
  /\ trace' = trace \o RearmOps(delivery)
  /\ pc' = "top"
  /\ UNCHANGED <<wifiWasConnected, mqttWasConnected, wifiSeen, mqttConn, rxFlag,
                 pending, fired, seq, spool, frameVars, delivery, flush,
                 cycleStart>>
  /\ UNCHANGED histVars
  /\ UNCHANGED fpVars

Next ==
  \/ onDio1
  \/ loopWifi
  \/ loopConnect
  \/ loopTrack
  \/ takeRxFlag
  \/ loopRead
  \/ loopDeliver
  \/ loopRearm

Spec == Init /\ [][Next]_vars

\* the steps of loop(); the Arduino loop task calls loop() again and again
\* and every call it makes returns
Cycle ==
  \/ loopWifi \/ loopConnect \/ loopTrack \/ takeRxFlag
  \/ loopRead \/ loopDeliver \/ loopRearm

LiveSpec == Spec /\ WF_vars(Cycle)

(* ------------------- the sniffer's fingerprint step -------------------- *)
FpReported == {0, 1, FP_BYTES - 1, FP_BYTES, FP_BYTES + 1, MaxReported}
FpFrames == [rl : FpReported, head : {97, 255}, b19 : {0, 255}, tail : {0, 17}]

FpInit ==
  /\ MainInit /\ spool = <<>>
  /\ fpPc = "in"
  /\ fpA \in FpFrames /\ fpB \in FpFrames
  /\ fpOut = <<>>

\* src/src/main.cpp lines 117-119, for both frames
sniffFingerprint ==
  /\ fpPc = "in"
  /\ fpOut' = <<Fingerprint(fpA), Fingerprint(fpB)>>
  /\ fpPc' = "out"
  /\ UNCHANGED <<mainVars, fpA, fpB>>

FpNext == sniffFingerprint

FpSpec == FpInit /\ [][FpNext]_vars

TypeOK ==
  /\ pc \in {"top", "connect", "track", "poll", "read", "deliver", "rearm"}
  /\ wifiWasConnected \in BOOLEAN /\ mqttWasConnected \in BOOLEAN
  /\ rxFlag \in BOOLEAN /\ fired \in 0..MaxFires /\ seq \in 0..MaxFires

(* ------------------------------ properties ----------------------------- *)
\* C1: when the transport is up and the publish of the current record
\* fails, the delivery step appends the record to the spool.
C1_PublishFailureSpools ==
  (pc = "rearm" /\ delivery.pub = "fail") => delivery.app # "none"

\* C2: after any spoolAppend call completes, the spool is not larger than
\* MAX_SPOOL_BYTES.
C2_SpoolWithinCap ==
  (pc = "rearm" /\ delivery.app # "none") => SpoolBytes(spool) <= MAX_SPOOL_BYTES

\* C3: a drain removes the spool only if every line was successfully
\* published during it; after a drain in which a publish failed the spool
\* still holds its content.
C3_FailedPublishKeepsSpool ==
  (pc = "track" /\ \E i \in 1..Len(flush.log) : ~flush.log[i].ok) => spool # <<>>

\* C4: a record that arrives while the transport is not up is appended as
\* the last line of the spool (the lines stay in arrival order); a drain
\* that reads the spool with the transport up to its end hands every line
\* to publish exactly once, oldest first, and then removes the spool.
C4_SpoolThenReplayInOrder ==
  [][ /\ (pc = "deliver" /\ delivery'.app = "ok"
            /\ SpoolBytes(spool) + cur.bytes <= MAX_SPOOL_BYTES)
           => /\ spool' = Append(spool, cur)
              /\ \A i \in 1..Len(spool) : spool[i].id < cur.id
      /\ (pc = "connect" /\ flush'.st \in {"absent", "kept", "removed"} /\ mqttConn')
           => /\ Ids(flush'.log) = Ids(spool)
              /\ spool' = <<>> ]_vars

C4_Witness ==
  /\ pc = "track" /\ flush.st = "removed"
  /\ Len(flush.log) >= 3 /\ flush.log[1].id >= 1

\* C5: the delivery step never both publishes a record successfully and
\* appends it to the spool: with the transport not up it only appends, with
\* a successful publish the spool is left as it was.
C5_PublishXorSpool ==
  [][ (pc = "deliver" /\ pc' = "rearm") =>
        /\ (delivery'.pub = "none") # (delivery'.app = "none")
        /\ (delivery'.pub = "ok" => spool' = spool)
        /\ (~mqttConn' => delivery'.pub = "none" /\ delivery'.app # "none")
        /\ (mqttConn' => delivery'.app = "none") ]_vars

C5_Witness ==
  pc = "rearm" /\ delivery.pub = "ok" /\ delivery.app = "none" /\ spool # <<>>

\* C6: every successful transport connect is followed at once by exactly one
\* spoolFlush in the same cycle, before the record of that cycle is published
\* or spooled; the transport is never newly marked up without that drain.
C6_ConnectThenOneFlushFirst ==
  /\ [](LET conn == {i \in 1..Len(trace) : trace[i] = "connect"}
            fl   == {i \in 1..Len(trace) : trace[i] = "flush"}
            del  == {i \in 1..Len(trace) : trace[i] \in {"publish", "append"}}
        IN /\ Cardinality(fl) = Cardinality(conn)
           /\ Cardinality(fl) <= 1
           /\ \A i \in conn : i + 1 \in fl
           /\ \A i \in fl : \A j \in del : i < j)
  /\ [][(~mqttWasConnected /\ mqttWasConnected')
          => /\ Len(trace') = Len(trace) + 2
             /\ trace'[Len(trace')] = "flush"
             /\ flush'.st # "none"]_vars

C6_Witness ==
  /\ pc = "rearm" /\ Len(trace) = 4
  /\ trace[1] = "connect" /\ trace[2] = "flush"
  /\ trace[4] \in {"publish", "append"}

\* C7: rxFlag is set only by onDio1 and cleared only by takeRxFlag; firings
\* that pile up before a takeRxFlag give one capture, so the captures never
\* outnumber the firings.
C7_SingleSlotMailbox ==
  /\ [](seq <= fired)
  /\ [][ /\ (~rxFlag /\ rxFlag') => (fired' = fired + 1 /\ pc' = pc /\ seq' = seq)
         /\ (rxFlag /\ ~rxFlag') => (pc = "poll" /\ pc' = "read" /\ fired' = fired)
         /\ (pc = "poll" /\ pc' # pc /\ pending >= 2)
              => (seq' = seq + 1 /\ ~rxFlag' /\ pending' = 0) ]_vars

C7_Witness ==
  pc = "read" /\ ~rxFlag /\ fired = 2 /\ seq = 1

\* C8 as stated: a cycle that starts in Down does not reach TransportUp.
C8_DownNeverStraightToTransportUp ==
  cycleStart = "Down" => ConnState # "TransportUp"

\* C8 amended: TransportUp is entered only by a successful connect attempted
\* while the network link is observed connected (which may be in the very
\* cycle that leaves Down), and Down is left for NetworkUp only by the
\* network check at the top of the cycle.
C8_TransportUpOnlyByConnectOnLink ==
  [][ /\ (ConnState # "TransportUp" /\ ConnState' = "TransportUp")
           => (pc = "connect" /\ wifiSeen' /\ flush'.st # "none")
      /\ (ConnState = "Down" /\ ConnState' = "NetworkUp")
           => (pc = "top" /\ wifiSeen') ]_vars

C8_Witness ==
  pc = "track" /\ cycleStart = "Down" /\ ConnState = "TransportUp"

\* C9: the engine never tracks the transport as up, nor attempts a publish
\* in the delivery step, while the network link is observed down.
C9_NoTransportWithoutNetwork ==
  /\ (pc \in {"poll", "read", "deliver", "rearm"} /\ mqttWasConnected) => wifiSeen
  /\ (pc = "rearm" /\ delivery.pub # "none") => wifiSeen

\* C10: the used length is at most the buffer capacity, and at most the
\* reported length when that is positive; with a reported length <= 0 the
\* used length is the buffer capacity and the frame type is byte 0.
C10_UsedLengthClamped ==
  pc = "deliver" =>
    /\ len <= BUF_SIZE
    /\ (reportedLen > 0 => len <= reportedLen)
    /\ (reportedLen <= 0 => len = BUF_SIZE /\ ptype = buf0)

C10_Witness ==
  pc = "deliver" /\ reportedLen <= 0 /\ len = BUF_SIZE /\ ptype = buf0 /\ buf0 = 17

\* C11: a drain stops handing lines to publish at the first line before
\* which the transport is seen not connected, and it leaves the spool either
\* exactly as it was or absent.
C11_DrainStopsAndKeepsWhole ==
  [][ (pc = "connect" /\ flush'.st # "none") =>
        /\ spool' \in {spool, <<>>}
        /\ Len(flush'.log) <= Len(spool)
        /\ \A i \in 1..Len(flush'.log) : flush'.log[i].id = spool[i].id
        /\ (flush'.st \in {"kept", "removed"} => Len(flush'.log) = flush'.stop - 1)
        /\ (flush'.st = "kept" => spool' = spool /\ ~mqttConn')
        /\ (flush'.st \in {"nofs", "absent"} => spool' = spool /\ flush'.log = <<>>) ]_vars

C11_Witness ==
  /\ pc = "track" /\ flush.st = "kept"
  /\ Len(spool) >= 2 /\ Len(flush.log) = 1 /\ flush.stop = 2

\* C12: a firing of the interrupt always leaves rxFlag set, the flag stays
\* set until the next takeRxFlag whatever the main cycle is doing, and that
\* takeRxFlag returns true: no notification raised while the flag is clear is
\* lost.
C12_NoLostNotification ==
  [][ /\ (fired' = fired + 1) => rxFlag'
      /\ (rxFlag /\ ~(pc = "poll" /\ pc' # pc)) => rxFlag'
      /\ (rxFlag /\ pc = "poll" /\ pc' # pc) => (pc' = "read" /\ seq' = seq + 1) ]_vars

C12_Witness ==
  pc \in {"read", "deliver", "rearm"} /\ rxFlag /\ pending = 1 /\ seq >= 1

\* C13: the receiver is re-armed exactly once in a cycle that handles a
\* notification, after the read and after the delivery step whatever its
\* outcome, and never in a cycle that found no notification.
C13_RearmOnceAfterDelivery ==
  LET rd  == {i \in 1..Len(trace) : trace[i] = "read"}
      ra  == {i \in 1..Len(trace) : trace[i] = "rearm"}
      del == {i \in 1..Len(trace) : trace[i] \in {"publish", "append"}}
  IN /\ Cardinality(ra) <= 1
     /\ \A i \in ra : (\E r \in rd : r < i) /\ (\E j \in del : j < i)
     /\ (rd = {} => ra = {})
     /\ (pc = "top" /\ rd # {}) => (ra = {Len(trace)} /\ del # {})

C13_Witness ==
  /\ pc = "top" /\ Len(trace) >= 3 /\ trace[Len(trace)] = "rearm"
  /\ delivery.app = "fail"

\* C14: a failed spool append is reported by the cycle that made it.
C14_FailedAppendReported ==
  (pc = "rearm" /\ delivery.app = "fail") => delivery.log

\* The rest of C14: spoolAppend returns false only when the storage could not
\* be opened; a failed append leaves the spool as it was and does not stop
\* the cycle, which goes on to the re-arm step and to the next cycle.
FailedAppendHarmless ==
  [][ /\ (pc = "deliver" /\ pc' # pc)
           => /\ pc' = "rearm"
              /\ (delivery'.app = "fail" => (spool' = spool /\ faults' = "some"))
              /\ (delivery'.app = "ok" => spool' \in {Append(spool, cur), <<>>})
      /\ (pc = "rearm" /\ pc' # pc)
           => (pc' = "top" /\ trace' = Append(trace, "rearm")) ]_vars

FailedAppendHarmless_Reached ==
  /\ faults = "some" /\ pc = "rearm" /\ cur.id >= 2
  /\ delivery.app = "ok" /\ spool # <<>> /\ spool[Len(spool)] = cur

\* C15: every cycle reaches the capture poll and then returns to the top of
\* loop(), whatever the connectivity state and whether or not a notification
\* is pending.
C15_CycleReachesPollAndReturns ==
  /\ (pc \in {"top", "connect", "track"}) ~> (pc = "poll")
  /\ (pc \in {"poll", "read", "deliver", "rearm"}) ~> (pc = "top")

C15_Witness ==
  /\ pc = "poll" /\ ~wifiSeen /\ ~mqttConn /\ spool # <<>> /\ rxFlag
  /\ seq >= 1

\* C17: as long as no storage operation has failed, the spool is absent
\* whenever the transport session is up, in particular whenever the delivery
\* step publishes.
C17_NoSpoolWhileTransportUp ==
  faults = "none" =>
    /\ (mqttConn => spool = <<>>)
    /\ ((pc = "rearm" /\ delivery.pub # "none") => spool = <<>>)

C17_Witness ==
  /\ faults = "none" /\ pc = "rearm" /\ delivery.pub = "ok" /\ spool = <<>>
  /\ trace = <<"connect", "flush", "read", "publish">>
  /\ cur.id = 2 /\ published = {1, 2}

\* C18: as long as no storage operation has failed, a record handed to
\* publish for the first time is newer than every record handed to publish
\* before it, and the delivery step publishes only when no older record is
\* left in the spool.
C18_FirstPublicationsInCaptureOrder ==
  [][ faults' = "none" =>
        /\ (pc = "connect" /\ flush'.st # "none") =>
             \A i \in 1..Len(flush'.log) :
               flush'.log[i].id \notin published =>
                 /\ \A y \in published : y < flush'.log[i].id
                 /\ \A j \in 1..(i - 1) : flush'.log[j].id < flush'.log[i].id
        /\ (pc = "deliver" /\ delivery'.pub # "none") =>
             /\ \A y \in published : y < cur.id
             /\ \A i \in 1..Len(spool) : spool[i].id > cur.id ]_vars

C18_Witness ==
  /\ faults = "none" /\ pc = "track" /\ flush.st = "removed"
  /\ Len(flush.log) = 3 /\ flush.log[1].id = 1 /\ published = {1, 2, 3}

\* C19: the truncation guard of the encoder never fires, so the bytes
\* hashed, the bytes hex-encoded and the "len" field are the same number,
\* and the hex text with its NUL fits the 512-byte buffer.
C19_NoTruncationNoOverrun ==
  pc = "deliver" =>
    /\ len * 2 < HEX_BUF
    /\ hashLen = len /\ encLen = len
    /\ toHex(encLen) <= HEX_BUF

C19_Witness ==
  /\ pc = "deliver" /\ reportedLen = MaxReported
  /\ len = BUF_SIZE /\ hashLen = BUF_SIZE /\ encLen = BUF_SIZE

\* C16: the fingerprint is 64-bit FNV-1a of the first min(usedLength, 20)
\* bytes: frames that agree on those bytes get the same fingerprint whatever
\* their bytes from index 20 on.
SamePrefix(a, b) ==
  LET na == Min(UsedLen(a.rl), FP_BYTES)
      nb == Min(UsedLen(b.rl), FP_BYTES)
  IN na = nb /\ \A i \in 0..(na - 1) : BufAt(a, i) = BufAt(b, i)

C16_FingerprintOfPrefixOnly ==
  fpPc = "out" =>
    /\ SamePrefix(fpA, fpB) => fpOut[1] = fpOut[2]
    /\ \A k \in 1..2 : Len(fpOut[k]) = 8 /\ \A i \in 1..8 : fpOut[k][i] \in 0..255
    /\ (UsedLen(fpA.rl) = 1 /\ fpA.head = 97)
         => fpOut[1] = <<140, 236, 1, 134, 76, 220, 99, 175>>

C16_Witness ==
  /\ fpPc = "out" /\ SamePrefix(fpA, fpB) /\ fpOut[1] = fpOut[2]
  /\ UsedLen(fpA.rl) = FP_BYTES + 1 /\ UsedLen(fpB.rl) = BUF_SIZE
  /\ fpA.tail # fpB.tail
=============================================================================
